---- MODULE Spec2Model ----
(***************************************************************************)
(* The cursor-anchored shorthand resolver of jsx-html-smart-complete       *)
(* (src/src/extension.ts, lines 1-580): the completion provider scans the  *)
(* line around the cursor, sanitizes the window, parses the token and      *)
(* compiles the JSX snippet.                                               *)
(*                                                                         *)
(* Strings are sequences of one-character strings.  The code's indices are *)
(* 0-based; At(s, i) reads the character the code writes s[i].             *)
(***************************************************************************)
EXTENDS Integers, Sequences, FiniteSets, TLC

\* line, character: the text of the cursor's line and position.character.
\* pc: "request" before the provider ran, then what it returned ("undefined"
\*     or "list").
\* locals: the locals of getValidTokenRangeAtCursor when it returned.
\* resolved: what getValidTokenRangeAtCursor returned.
\* parsed, snippet: parseToken's result and the JSX item's snippet text.
VARIABLES line, character, pc, locals, resolved, parsed, snippet

vars == <<line, character, pc, locals, resolved, parsed, snippet>>

\* ------------------------------------------------------------------ bounds
\* Longest line drawn over Alphabet.
MaxLen == 3
\* Most fragments appended to a tag in the lines drawn from Tags and Frags.
MaxFrags == 2

\* --------------------------------------------------------- character sets
Lower ==
  {"a","b","c","d","e","f","g","h","i","j","k","l","m",
   "n","o","p","q","r","s","t","u","v","w","x","y","z"}

Upper ==
  {"A","B","C","D","E","F","G","H","I","J","K","L","M",
   "N","O","P","Q","R","S","T","U","V","W","X","Y","Z"}

Digits == {"0","1","2","3","4","5","6","7","8","9"}

\* /[A-Za-z]/
IsLetter(ch) == ch \in Lower \cup Upper

\* /[A-Za-z0-9_-]/
IsNameChar(ch) == ch \in Lower \cup Upper \cup Digits \cup {"_", "-"}

\* /[.#\[A-Za-z0-9_-]/
IsShorthandChar(ch) == ch \in {".", "#", "["} \/ IsNameChar(ch)

\* A variant of the scanner's class that lets ',' through as well.
IsWindowCharWide(ch) ==
  ch \in {".", "#", "[", "]", "{", "}", ">", "'", "=", "\"", ","} \/ IsNameChar(ch)

\* /[.#\[\]\{\}\>\'A-Za-z0-9="_-]/ : the class the boundary scanner walks over.
IsWindowChar(ch) ==
  ch \in {".", "#", "[", "]", "{", "}", ">", "'", "=", "\""} \/ IsNameChar(ch)

\* ---------------------------------------------------------- string helpers
At(s, i) == s[i + 1]

\* s.slice(from, to) for 0 <= from, 0 <= to
Slice(s, from, to) ==
  LET t == IF to > Len(s) THEN Len(s) ELSE to
  IN  IF from >= t THEN << >> ELSE SubSeq(s, from + 1, t)

\* s.slice(from)
SliceFrom(s, from) == Slice(s, from, Len(s))

\* ------------------------------------------------------------- sanitizer
\* A variant of the loop that steps over an invalid character met before any
\* start was found, in place of ending the scan there.
RECURSIVE SanitizeScanSkipJunk(_, _, _, _)
SanitizeScanSkipJunk(token, i, bracketBalance, recoverStartIndex) ==
  IF i >= Len(token)
  THEN [i |-> i, recoverStartIndex |-> recoverStartIndex]
  ELSE
    LET ch == At(token, i) IN
    IF ch = "["
    THEN SanitizeScanSkipJunk(token, i + 1, bracketBalance + 1, recoverStartIndex)
    ELSE IF ch = "]"
    THEN IF bracketBalance = 0
         THEN SanitizeScanSkipJunk(token, i + 1, bracketBalance, i + 1)
         ELSE SanitizeScanSkipJunk(token, i + 1, bracketBalance - 1, recoverStartIndex)
    ELSE IF bracketBalance > 0
    THEN SanitizeScanSkipJunk(token, i + 1, bracketBalance, recoverStartIndex)
    ELSE IF IsShorthandChar(ch)
    THEN SanitizeScanSkipJunk(token, i + 1, bracketBalance,
                              IF recoverStartIndex = -1 THEN i ELSE recoverStartIndex)
    ELSE IF recoverStartIndex = -1
    THEN SanitizeScanSkipJunk(token, i + 1, bracketBalance, recoverStartIndex)
    ELSE [i |-> i, recoverStartIndex |-> recoverStartIndex]

\* A variant of the loop in which an orphan ']' is stepped over without
\* moving a start that was already found.
RECURSIVE SanitizeScanKeepStart(_, _, _, _)
SanitizeScanKeepStart(token, i, bracketBalance, recoverStartIndex) ==
  IF i >= Len(token)
  THEN [i |-> i, recoverStartIndex |-> recoverStartIndex]
  ELSE
    LET ch == At(token, i) IN
    IF ch = "["
    THEN SanitizeScanKeepStart(token, i + 1, bracketBalance + 1, recoverStartIndex)
    ELSE IF ch = "]"
    THEN IF bracketBalance = 0
         THEN SanitizeScanKeepStart(token, i + 1, bracketBalance,
                                    IF recoverStartIndex = -1 THEN i + 1
                                    ELSE recoverStartIndex)
         ELSE SanitizeScanKeepStart(token, i + 1, bracketBalance - 1, recoverStartIndex)
    ELSE IF bracketBalance > 0
    THEN SanitizeScanKeepStart(token, i + 1, bracketBalance, recoverStartIndex)
    ELSE IF IsShorthandChar(ch)
    THEN SanitizeScanKeepStart(token, i + 1, bracketBalance,
                               IF recoverStartIndex = -1 THEN i ELSE recoverStartIndex)
    ELSE [i |-> i, recoverStartIndex |-> recoverStartIndex]

\* A variant of the loop that checks bracket contents against the shorthand
\* alphabet too.
RECURSIVE SanitizeScanCheckContents(_, _, _, _)
SanitizeScanCheckContents(token, i, bracketBalance, recoverStartIndex) ==
  IF i >= Len(token)
  THEN [i |-> i, recoverStartIndex |-> recoverStartIndex]
  ELSE
    LET ch == At(token, i) IN
    IF ch = "["
    THEN SanitizeScanCheckContents(token, i + 1, bracketBalance + 1, recoverStartIndex)
    ELSE IF ch = "]"
    THEN IF bracketBalance = 0
         THEN SanitizeScanCheckContents(token, i + 1, bracketBalance, i + 1)
         ELSE SanitizeScanCheckContents(token, i + 1, bracketBalance - 1, recoverStartIndex)
    ELSE IF IsShorthandChar(ch)
    THEN SanitizeScanCheckContents(token, i + 1, bracketBalance,
                                   IF recoverStartIndex = -1 /\ bracketBalance = 0
                                   THEN i ELSE recoverStartIndex)
    ELSE [i |-> i, recoverStartIndex |-> recoverStartIndex]

\* The while loop of sanitizeFinalTokenWithRecovery; the value is the loop's
\* final state (i, recoverStartIndex).
RECURSIVE SanitizeScan(_, _, _, _)
SanitizeScan(token, i, bracketBalance, recoverStartIndex) ==
  IF i >= Len(token)
  THEN [i |-> i, recoverStartIndex |-> recoverStartIndex]
  ELSE
    LET ch == At(token, i) IN
    IF ch = "["
    THEN SanitizeScan(token, i + 1, bracketBalance + 1, recoverStartIndex)
    ELSE IF ch = "]"
    THEN IF bracketBalance = 0
         THEN SanitizeScan(token, i + 1, bracketBalance, i + 1)
         ELSE SanitizeScan(token, i + 1, bracketBalance - 1, recoverStartIndex)
    ELSE IF bracketBalance > 0
    THEN SanitizeScan(token, i + 1, bracketBalance, recoverStartIndex)
    ELSE IF IsShorthandChar(ch)
    THEN SanitizeScan(token, i + 1, bracketBalance,
                      IF recoverStartIndex = -1 THEN i ELSE recoverStartIndex)
    ELSE [i |-> i, recoverStartIndex |-> recoverStartIndex]

\* A variant of the result that slices the window from its first character.
SanitizeResultFromZero(token, scan) ==
  IF scan.recoverStartIndex # -1
  THEN [isNull |-> FALSE, text |-> Slice(token, 0, scan.i)]
  ELSE [isNull |-> TRUE, text |-> << >>]

\* The result of the scan: null (isNull) or token.slice(recoverStartIndex, i).
SanitizeResult(token, scan) ==
  IF scan.recoverStartIndex # -1
  THEN [isNull |-> FALSE, text |-> Slice(token, scan.recoverStartIndex, scan.i)]
  ELSE [isNull |-> TRUE, text |-> << >>]

\* token: string -> string | null
sanitizeFinalTokenWithRecovery(token) ==
  SanitizeResult(token, SanitizeScan(token, 0, 0, -1))

\* ------------------------------------------------- computeValidPostLength
RECURSIVE ValidPostLoop(_, _, _)
ValidPostLoop(postToken, wantedPost, i) ==
  IF i < Len(postToken) /\ i < Len(wantedPost) /\ At(postToken, i) = At(wantedPost, i)
  THEN ValidPostLoop(postToken, wantedPost, i + 1)
  ELSE i

\* A variant that takes the whole token for the part after the cursor.
computeValidPostLengthWholeToken(rawToken, postToken, finalToken) ==
  Len(finalToken)

computeValidPostLength(rawToken, postToken, finalToken) ==
  LET from == Len(rawToken)
      wantedPost == SliceFrom(finalToken, from)
  IN  ValidPostLoop(postToken, wantedPost, 0)

\* --------------------------------------------- getValidTokenRangeAtCursor
RECURSIVE ScanBackward(_, _)
ScanBackward(text, start) ==
  IF start > 0 /\ IsWindowChar(At(text, start - 1))
  THEN ScanBackward(text, start - 1)
  ELSE start

RECURSIVE ScanForward(_, _)
ScanForward(text, end) ==
  IF end < Len(text) /\ IsWindowChar(At(text, end))
  THEN ScanForward(text, end + 1)
  ELSE end

\* The locals of getValidTokenRangeAtCursor at its return: the window
\* [start, end), rawToken + postToken, and the sanitizer's loop state and result.
TokenRangeLocals(text, pos) ==
  LET start == ScanBackward(text, pos)
      end == ScanForward(text, pos)
      combined == Slice(text, start, pos) \o Slice(text, pos, end)
      scan == SanitizeScan(combined, 0, 0, -1)
  IN  [start |-> start, end |-> end, combined |-> combined,
       recoverStartIndex |-> scan.recoverStartIndex, i |-> scan.i,
       sanitized |-> sanitizeFinalTokenWithRecovery(combined)]

NoResolve == [isNull |-> TRUE, token |-> << >>, start |-> 0, end |-> 0]

\* A variant that takes the empty string for a token, as `sanitized === null`
\* in place of `!sanitized` would.
TokenRangeKeepEmpty(text, pos) ==
  LET l == TokenRangeLocals(text, pos)
      rawToken == Slice(text, l.start, pos)
      postToken == Slice(text, pos, l.end)
  IN  IF l.sanitized.isNull
      THEN NoResolve
      ELSE [isNull |-> FALSE, token |-> l.sanitized.text, start |-> l.start,
            end |-> pos + computeValidPostLength(rawToken, postToken, l.sanitized.text)]

\* null, or { token, range: [start, end] } on the cursor's line
getValidTokenRangeAtCursor(text, pos) ==
  LET l == TokenRangeLocals(text, pos)
      rawToken == Slice(text, l.start, pos)
      postToken == Slice(text, pos, l.end)
  IN  IF l.sanitized.isNull \/ l.sanitized.text = << >>
      THEN NoResolve
      ELSE [isNull |-> FALSE, token |-> l.sanitized.text, start |-> l.start,
            end |-> pos + computeValidPostLength(rawToken, postToken, l.sanitized.text)]

\* --------------------------------------------------------------- parseToken
\* The result parseToken starts from (and returns for an empty token).
NoParse == [tag |-> << >>, classes |-> << >>, id |-> << >>, attrs |-> << >>,
            endsWith |-> ""]

\* The length of the match of /^([A-Za-z][A-Za-z0-9_-]*)/, 0 when none.
RECURSIVE NameEnd(_, _)
NameEnd(token, i) ==
  IF i < Len(token) /\ IsNameChar(At(token, i))
  THEN NameEnd(token, i + 1)
  ELSE i

TagMatchLength(token) ==
  IF Len(token) > 0 /\ IsLetter(At(token, 0)) THEN NameEnd(token, 1) ELSE 0

\* A variant of the bracket content loop that reads name characters only.
RECURSIVE BracketEndNameOnly(_, _)
BracketEndNameOnly(token, i) ==
  IF i < Len(token) /\ IsNameChar(At(token, i))
  THEN BracketEndNameOnly(token, i + 1)
  ELSE i

\* The index of the first ']' at or after i, Len(token) when none.
RECURSIVE BracketEnd(_, _)
BracketEnd(token, i) ==
  IF i < Len(token) /\ At(token, i) # "]"
  THEN BracketEnd(token, i + 1)
  ELSE i

\* The index with which one iteration of parseToken's loop, entered with
\* index i < token.length, ends (the break of an unterminated bracket leaves
\* the loop with i at the end of the token).
ParseNext(token, i) ==
  LET ch == At(token, i) IN
  IF ch = "." \/ ch = "#" THEN NameEnd(token, i + 1)
  ELSE IF ch = "["
  THEN LET j == BracketEnd(token, i + 1)
       IN  IF j < Len(token) THEN j + 1 ELSE j
  ELSE i + 1

\* A variant of the loop that gives up at a character it does not recognize.
RECURSIVE ParseLoopAbort(_, _, _)
ParseLoopAbort(token, i, r) ==
  IF i >= Len(token) THEN r
  ELSE
    LET ch == At(token, i) IN
    IF ch = "."
    THEN LET j == NameEnd(token, i + 1)
             cls == Slice(token, i + 1, j)
         IN  ParseLoopAbort(token, j,
                            IF cls # << >>
                            THEN [r EXCEPT !.classes = Append(@, cls)]
                            ELSE r)
    ELSE IF ch = "#"
    THEN LET j == NameEnd(token, i + 1)
             id == Slice(token, i + 1, j)
         IN  ParseLoopAbort(token, j,
                            IF id # << >> THEN [r EXCEPT !.id = id] ELSE r)
    ELSE IF ch = "["
    THEN LET j == BracketEnd(token, i + 1)
             inside == Slice(token, i + 1, j)
             pushed == [r EXCEPT !.attrs = Append(@, inside)]
         IN  IF j < Len(token)
             THEN ParseLoopAbort(token, j + 1, pushed)
             ELSE pushed
    ELSE r

\* A variant of the loop in which an id, once captured, is kept.
RECURSIVE ParseLoopFirstId(_, _, _)
ParseLoopFirstId(token, i, r) ==
  IF i >= Len(token) THEN r
  ELSE
    LET ch == At(token, i) IN
    IF ch = "."
    THEN LET j == NameEnd(token, i + 1)
             cls == Slice(token, i + 1, j)
         IN  ParseLoopFirstId(token, j,
                              IF cls # << >>
                              THEN [r EXCEPT !.classes = Append(@, cls)]
                              ELSE r)
    ELSE IF ch = "#"
    THEN LET j == NameEnd(token, i + 1)
             id == Slice(token, i + 1, j)
         IN  ParseLoopFirstId(token, j,
                              IF id # << >> /\ r.id = << >>
                              THEN [r EXCEPT !.id = id]
                              ELSE r)
    ELSE IF ch = "["
    THEN LET j == BracketEnd(token, i + 1)
             inside == Slice(token, i + 1, j)
             pushed == [r EXCEPT !.attrs = Append(@, inside)]
         IN  IF j < Len(token)
             THEN ParseLoopFirstId(token, j + 1, pushed)
             ELSE pushed
    ELSE ParseLoopFirstId(token, i + 1, r)

\* The `while (i < token.length)` loop of parseToken on result r.
RECURSIVE ParseLoop(_, _, _)
ParseLoop(token, i, r) ==
  IF i >= Len(token) THEN r
  ELSE
    LET ch == At(token, i) IN
    IF ch = "."
    THEN LET j == NameEnd(token, i + 1)
             cls == Slice(token, i + 1, j)
         IN  ParseLoop(token, j,
                       IF cls # << >>
                       THEN [r EXCEPT !.classes = Append(@, cls)]
                       ELSE r)
    ELSE IF ch = "#"
    THEN LET j == NameEnd(token, i + 1)
             id == Slice(token, i + 1, j)
         IN  ParseLoop(token, j,
                       IF id # << >> THEN [r EXCEPT !.id = id] ELSE r)
    ELSE IF ch = "["
    THEN LET j == BracketEnd(token, i + 1)
             inside == Slice(token, i + 1, j)
             pushed == [r EXCEPT !.attrs = Append(@, inside)]
         IN  IF j < Len(token)
             THEN ParseLoop(token, j + 1, pushed)
             ELSE pushed
    ELSE ParseLoop(token, i + 1, r)

\* tag = << >> and id = << >> stand for undefined (the code only tests them
\* for truthiness, and never stores an empty string in either); endsWith = ""
\* stands for null.
parseToken(token) ==
  IF token = << >> THEN NoParse
  ELSE
    LET n == TagMatchLength(token)
        lastChar == At(token, Len(token) - 1)
        r0 == [tag |-> Slice(token, 0, n), classes |-> << >>, id |-> << >>,
               attrs |-> << >>,
               endsWith |-> IF lastChar \in {".", "#", "["} THEN lastChar ELSE ""]
    IN  ParseLoop(token, n, r0)

\* ------------------------------------------------------- snippet assembly
SELF_CLOSING ==
  {<<"a","r","e","a">>, <<"b","a","s","e">>, <<"b","r">>, <<"c","o","l">>,
   <<"e","m","b","e","d">>, <<"h","r">>, <<"i","m","g">>,
   <<"i","n","p","u","t">>, <<"l","i","n","k">>, <<"m","e","t","a">>,
   <<"p","a","r","a","m">>, <<"s","o","u","r","c","e">>,
   <<"t","r","a","c","k">>, <<"w","b","r">>}

UpperSeq ==
  <<"A","B","C","D","E","F","G","H","I","J","K","L","M",
    "N","O","P","Q","R","S","T","U","V","W","X","Y","Z">>

LowerSeq ==
  <<"a","b","c","d","e","f","g","h","i","j","k","l","m",
    "n","o","p","q","r","s","t","u","v","w","x","y","z">>

toLowerCase(s) ==
  [k \in 1..Len(s) |->
     IF s[k] \in Upper
     THEN LowerSeq[CHOOSE n \in 1..Len(UpperSeq) : UpperSeq[n] = s[k]]
     ELSE s[k]]

\* s.replace(/\$/g, "\\$")
RECURSIVE escapeSnippet(_)
escapeSnippet(s) ==
  IF s = << >> THEN << >>
  ELSE (IF Head(s) = "$" THEN <<"\\", "$">> ELSE <<Head(s)>>) \o escapeSnippet(Tail(s))

\* parts.join(" ")
RECURSIVE Join(_)
Join(parts) ==
  IF parts = << >> THEN << >>
  ELSE IF Len(parts) = 1 THEN parts[1]
  ELSE parts[1] \o <<" ">> \o Join(Tail(parts))

\* s.includes(ch)
Includes(s, ch) == \E k \in 1..Len(s) : s[k] = ch

DigitSeq == <<"0","1","2","3","4","5","6","7","8","9">>

\* The decimal text a template literal gives a non-negative number.
RECURSIVE Decimal(_)
Decimal(n) ==
  IF n < 10 THEN <<DigitSeq[n + 1]>>
  ELSE Decimal(n \div 10) \o <<DigitSeq[(n % 10) + 1]>>

\* ${n}
Stop(n) == <<"$", "{">> \o Decimal(n) \o <<"}">>

TextClassName == <<" ","c","l","a","s","s","N","a","m","e","=","\"">>
TextId == <<" ","i","d","=","\"">>
TextAlt == <<" ","a","l","t","=","\"">>
TextQuote == <<"\"">>
TextDiv == <<"d","i","v">>
TextImg == <<"i","m","g">>
TextAltName == <<"a","l","t">>

\* A variant of the class step that joins the class names with nothing
\* between them.
AddClassesUnspaced(b, finalToken, p) ==
  LET RECURSIVE Glue(_)
      Glue(parts) == IF parts = << >> THEN << >>
                     ELSE parts[1] \o Glue(Tail(parts))
      literal ==
        IF Len(p.classes) > 0
        THEN b.snippet \o TextClassName \o Glue(p.classes) \o TextQuote
        ELSE b.snippet
  IN  IF Includes(finalToken, ".") /\ Len(p.classes) = 0
      THEN [snippet |-> literal \o TextClassName \o Stop(1) \o TextQuote,
            toFoc |-> b.toFoc + 1]
      ELSE [snippet |-> literal, toFoc |-> b.toFoc]

\* A variant of the class step that writes an empty literal value where the
\* code writes a placeholder.
AddClassesEmptyLiteral(b, finalToken, p) ==
  LET literal ==
        IF Len(p.classes) > 0
        THEN b.snippet \o TextClassName \o Join(p.classes) \o TextQuote
        ELSE b.snippet
  IN  IF Includes(finalToken, ".") /\ Len(p.classes) = 0
      THEN [snippet |-> literal \o TextClassName \o TextQuote,
            toFoc |-> b.toFoc]
      ELSE [snippet |-> literal, toFoc |-> b.toFoc]

\* `Ajout des classes`: the text and the tab-stop counter after it.
AddClasses(b, finalToken, p) ==
  LET literal ==
        IF Len(p.classes) > 0
        THEN b.snippet \o TextClassName \o Join(p.classes) \o TextQuote
        ELSE b.snippet
  IN  IF Includes(finalToken, ".") /\ Len(p.classes) = 0
      THEN [snippet |-> literal \o TextClassName \o Stop(1) \o TextQuote,
            toFoc |-> b.toFoc + 1]
      ELSE [snippet |-> literal, toFoc |-> b.toFoc]

\* `Ajout de l'ID`
AddId(b, finalToken, p) ==
  LET literal ==
        IF p.id # << >>
        THEN [snippet |-> b.snippet \o TextId \o escapeSnippet(p.id) \o TextQuote,
              toFoc |-> b.toFoc + 1]
        ELSE b
  IN  IF Includes(finalToken, "#") /\ p.id = << >>
      THEN [snippet |-> literal.snippet \o TextId \o Stop(1) \o TextQuote,
            toFoc |-> literal.toFoc]
      ELSE literal

\* `Ajout des attributs`
AddAttrs(b, p) ==
  IF Len(p.attrs) > 0
  THEN [snippet |-> b.snippet \o <<" ">> \o Join(p.attrs), toFoc |-> b.toFoc]
  ELSE b

\* A variant of the closing that offers alt on every void element, img too.
CloseTagAltOnImg(b, tag, selfClosing, p) ==
  IF selfClosing
  THEN LET alt ==
             IF ~(\E k \in 1..Len(p.attrs) : p.attrs[k] = TextAltName)
             THEN [snippet |-> b.snippet \o TextAlt \o Stop(b.toFoc) \o TextQuote,
                   toFoc |-> b.toFoc + 1]
             ELSE b
       IN  [snippet |-> alt.snippet \o <<" ", "/", ">">>, toFoc |-> alt.toFoc]
  ELSE [snippet |-> b.snippet \o <<">">> \o Stop(0) \o <<"<", "/">> \o tag \o <<">">>,
        toFoc |-> b.toFoc]

\* `Fermeture de la balise`
CloseTag(b, tag, selfClosing, p) ==
  IF selfClosing
  THEN LET alt ==
             IF toLowerCase(tag) # TextImg
                /\ ~(\E k \in 1..Len(p.attrs) : p.attrs[k] = TextAltName)
             THEN [snippet |-> b.snippet \o TextAlt \o Stop(b.toFoc) \o TextQuote,
                   toFoc |-> b.toFoc + 1]
             ELSE b
       IN  [snippet |-> alt.snippet \o <<" ", "/", ">">>, toFoc |-> alt.toFoc]
  ELSE [snippet |-> b.snippet \o <<">">> \o Stop(0) \o <<"<", "/">> \o tag \o <<">">>,
        toFoc |-> b.toFoc]

\* A variant of the tag choice that has no default.
TagOfNoDefault(p) == p.tag

\* const tag = parsed.tag || "div"
TagOf(p) == IF p.tag # << >> THEN p.tag ELSE TextDiv

\* A variant of the void test that compares the tag as it is spelled.
IsSelfClosingCaseSensitive(tag) == tag \in SELF_CLOSING

\* const selfClosing = SELF_CLOSING.has(tag.toLowerCase())
IsSelfClosing(tag) == toLowerCase(tag) \in SELF_CLOSING

\* The JSX snippet built for finalToken and its parse p, with toFoc after it.
BuildSnippet(finalToken, p) ==
  LET tag == TagOf(p)
      selfClosing == IsSelfClosing(tag)
      b0 == [snippet |-> <<"<">> \o tag, toFoc |-> 1]
      b1 == AddClasses(b0, finalToken, p)
      b2 == AddId(b1, finalToken, p)
      b3 == AddAttrs(b2, p)
  IN  CloseTag(b3, tag, selfClosing, p)

\* ------------------------------------------------------------------ inputs
\* Characters of the lines drawn in full: a name character, the three
\* fragment openers, the closing bracket, a character of the scanner's class
\* outside the shorthand alphabet ('{'), '>' and three characters outside the
\* scanner's class (' ', '<', ',').
Alphabet == {"a", ".", "#", "[", "]", "{", ">", " ", "<", ","}

AlphabetLines == UNION {[1..n -> Alphabet] : n \in 0..MaxLen}

\* Lines made of a head (no tag, a void element, img in both cases, a
\* non-void tag in upper case, a digit, an underscore) followed by at most
\* MaxFrags fragments.
Tags == {<< >>, <<"b","r">>, <<"i","m","g">>, <<"I","M","G">>, <<"P">>,
         <<"1">>, <<"_">>}

Frags == {<<".">>, <<".","c">>, <<"#">>, <<"#","x">>, <<"#","y">>, <<"[">>,
          <<"[","]">>, <<"[","a","l","t","]">>, <<"]">>}

RECURSIVE FragLines(_)
FragLines(n) ==
  IF n = 0 THEN Tags
  ELSE LET shorter == FragLines(n - 1)
       IN  shorter \cup {l \o f : l \in shorter, f \in Frags}

Lines == AlphabetLines \cup FragLines(MaxFrags)

NoLocals == [start |-> 0, end |-> 0, combined |-> << >>, recoverStartIndex |-> -1,
             i |-> 0, sanitized |-> [isNull |-> TRUE, text |-> << >>]]

\* ------------------------------------------------------------------ system
Init ==
  /\ line \in Lines
  /\ character \in 0..Len(line)
  /\ pc = "request"
  /\ locals = NoLocals
  /\ resolved = NoResolve
  /\ parsed = NoParse
  /\ snippet = << >>

\* One completion request, from its call to its return.  The handler returns
\* undefined when getValidTokenRangeAtCursor returns null (the later
\* `!finalToken` test never fires: an empty token is already null there).
\* The keyword items it may add to the list (jsxbuild..., fun, func, sup, inf,
\* void) are fixed texts that leave the JSX item's snippet untouched; the
\* snippet kept here is the JSX item's.
provideCompletionItems ==
  /\ pc = "request"
  /\ LET result == getValidTokenRangeAtCursor(line, character) IN
       /\ locals' = TokenRangeLocals(line, character)
       /\ resolved' = result
       /\ parsed' = IF result.isNull THEN NoParse ELSE parseToken(result.token)
       /\ snippet' = IF result.isNull THEN << >>
                     ELSE BuildSnippet(result.token, parseToken(result.token)).snippet
       /\ pc' = IF result.isNull THEN "undefined" ELSE "list"
  /\ UNCHANGED <<line, character>>

Next == provideCompletionItems

Spec == Init /\ [][Next]_vars

\* ============================================================== properties
\* The provider has run on (line, character).
Returned == pc # "request"

\* rawToken and postToken of the request: the window before and after the cursor.
Before == Slice(line, locals.start, character)
After == Slice(line, character, locals.end)

\* C1 (as claimed): whenever the character just before the cursor is a
\* letter, a digit, '.', '#' or '[', the resolver returns a result (the
\* provider does not return undefined), whatever else is in the window.
C1_ResolvesAfterShorthandChar ==
  (/\ Returned
   /\ character > 0
   /\ \/ IsLetter(line[character])
      \/ line[character] \in Digits
      \/ line[character] \in {".", "#", "["})
  => ~resolved.isNull

\* C2 (as claimed): sanitizing the sanitizer's own result gives that result
\* back: not null, and the same text, also when the result begins with '['
\* or is empty.
C2_SanitizeIdempotent ==
  (Returned /\ ~locals.sanitized.isNull)
  => sanitizeFinalTokenWithRecovery(locals.sanitized.text) = locals.sanitized

\* The number of leading characters of postToken that lie inside the
\* sanitized token combined[recoverStartIndex, i): none when the token
\* starts after the cursor or ends before it.
LeadingAfterInToken ==
  LET from == Len(Before)
  IN  IF locals.recoverStartIndex <= from /\ locals.i > from
      THEN locals.i - from
      ELSE 0

\* C3 (as claimed): when the resolver returns a result, the length it adds
\* to the cursor (computeValidPostLength) is the number of leading characters
\* of `after` that are part of the sanitized token, also when the sanitizer
\* discarded a leading part of `before` (recoverStartIndex > 0).
C3_ConsumedAfterLength ==
  (Returned /\ ~resolved.isNull)
  => resolved.end - character = LeadingAfterInToken

\* The numbers of the ${n} stops of snippet text s from 1-based position k on,
\* left to right (an escaped \$ opens no stop).
RECURSIVE DigitsEnd(_, _)
DigitsEnd(s, k) ==
  IF k <= Len(s) /\ s[k] \in Digits THEN DigitsEnd(s, k + 1) ELSE k

RECURSIVE DecimalValue(_)
DecimalValue(ds) ==
  IF ds = << >> THEN 0
  ELSE 10 * DecimalValue(SubSeq(ds, 1, Len(ds) - 1))
       + (CHOOSE n \in 0..9 : DigitSeq[n + 1] = ds[Len(ds)])

RECURSIVE StopNumbers(_, _)
StopNumbers(s, k) ==
  IF k > Len(s) THEN << >>
  ELSE IF s[k] = "\\" THEN StopNumbers(s, k + 2)
  ELSE IF s[k] = "$" /\ k + 1 <= Len(s) /\ s[k + 1] = "{"
  THEN LET e == DigitsEnd(s, k + 2)
       IN  IF e > k + 2 /\ e <= Len(s) /\ s[e] = "}"
           THEN <<DecimalValue(SubSeq(s, k + 2, e - 1))>> \o StopNumbers(s, e + 1)
           ELSE StopNumbers(s, k + 1)
  ELSE StopNumbers(s, k + 1)

\* The numbered (editable) stops of s: every stop but the terminal ${0}.
EditableStops(s) == SelectSeq(StopNumbers(s, 1), LAMBDA n : n > 0)

\* The 1-based position of the first occurrence of sub in s, 0 when none.
FindSub(s, sub) ==
  LET hits == {k \in 1..(Len(s) - Len(sub) + 1) : SubSeq(s, k, k + Len(sub) - 1) = sub}
  IN  IF hits = {} THEN 0 ELSE CHOOSE k \in hits : \A h \in hits : k <= h

Contains(s, sub) == FindSub(s, sub) # 0

EndsWithText(s, sub) ==
  Len(s) >= Len(sub) /\ SubSeq(s, Len(s) - Len(sub) + 1, Len(s)) = sub

\* Where the id attribute with a placeholder value starts in the snippet, 0 when absent.
IdHoleAt == FindSub(snippet, TextId \o <<"$", "{">>)

\* C4 (as claimed): when the token contains '#' and no id value is captured,
\* the id placeholder's number is greater than every number already
\* allocated: every editable stop to its left has a smaller number (so an
\* empty class placeholder and the id placeholder never share a number).
C4_IdPlaceholderOwnNumber ==
  (/\ pc = "list"
   /\ Includes(resolved.token, "#")
   /\ parsed.id = << >>)
  => /\ IdHoleAt # 0
     /\ LET idStop == StopNumbers(snippet, IdHoleAt)[1]
            earlier == EditableStops(SubSeq(snippet, 1, IdHoleAt))
        IN  \A k \in 1..Len(earlier) : earlier[k] < idStop

\* C5 (as claimed): the editable stops of the compiled snippet, read left to
\* right, are numbered 1, 2, ..., n.
C5_StopsNumberedInSequence ==
  pc = "list"
  => LET stops == EditableStops(snippet)
     IN  \A k \in 1..Len(stops) : stops[k] = k

\* A Tag Expression with tag 'img' and no classes, id or attrs.
BareImg ==
  /\ pc = "list"
  /\ parsed.tag = TextImg
  /\ parsed.classes = << >>
  /\ parsed.id = << >>
  /\ parsed.attrs = << >>

SelfClosedImg ==
  /\ SubSeq(snippet, 1, 4) = <<"<">> \o TextImg
  /\ EndsWithText(snippet, <<" ", "/", ">">>)
  /\ ~Contains(snippet, Stop(0))

\* C6 (as claimed): a bare img compiles to a self-closing image tag that
\* carries an editable alt placeholder and no ${0}.
C6_ImgCarriesAltPlaceholder ==
  BareImg
  => /\ SelfClosedImg
     /\ \E n \in 1..4 : Contains(snippet, TextAlt \o Stop(n) \o TextQuote)

\* C6 (amended): a bare img compiles to a self-closing image tag with no
\* alt attribute at all (the alt placeholder is for the other void elements)
\* and no ${0}.
C6_ImgCarriesNoAlt ==
  BareImg => (SelfClosedImg /\ ~Contains(snippet, TextAlt))

\* C6 witness: the token 'img' compiled to exactly <img />.
C6_Witness ==
  BareImg /\ resolved.token = TextImg /\ snippet = <<"<", "i", "m", "g", " ", "/", ">">>

\* C7 (as claimed): classes holds no empty string, and attrs holds an empty
\* string only as its last entry, left by an unterminated bracket (the
\* token then ends with that '['); a terminated '[]' appends nothing.
C7_NoEmptyEntries ==
  pc = "list"
  => /\ \A k \in 1..Len(parsed.classes) : parsed.classes[k] # << >>
     /\ \A k \in 1..Len(parsed.attrs) :
          parsed.attrs[k] = << >>
          => (k = Len(parsed.attrs) /\ parsed.endsWith = "[")

\* [start, end) is the maximal stretch around the cursor free of the
\* characters of stops: nothing in stops lies inside, and a member of stops
\* (or the end of the line) lies just outside on either side.
DelimitedBy(stops) ==
  /\ locals.start <= character /\ character <= locals.end
  /\ \A k \in (locals.start + 1)..locals.end : line[k] \notin stops
  /\ locals.start = 0 \/ line[locals.start] \in stops
  /\ locals.end = Len(line) \/ line[locals.end + 1] \in stops

\* C8 (as claimed): the window is delimited exactly by whitespace, '<' and
\* '>': before and after are the maximal runs around the cursor that hold
\* none of them.  (Of these separators the lines drawn hold ' ', '<', '>'.)
C8_WindowDelimitedBySeparators ==
  Returned => DelimitedBy({" ", "<", ">"})

\* The scanner's class as the source spells it:
\* . # [ ] { } > ' = " _ - and the letters and digits.
WindowClass ==
  {".", "#", "[", "]", "{", "}", ">", "'", "=", "\"", "_", "-"}
    \cup Lower \cup Upper \cup Digits

\* C8 (amended): the window is delimited by the characters outside the class
\* [.#[]{}>'A-Za-z0-9="_-]: before and after are the maximal runs around the
\* cursor made of characters of the class, so whitespace, '<' and every other
\* character outside the class (',' for one) stop the walk and '>' does not;
\* a cursor at offset 0 yields an empty before.
C8_WindowDelimitedByClass ==
  Returned
  => /\ locals.start <= character /\ character <= locals.end
     /\ \A k \in (locals.start + 1)..locals.end : line[k] \in WindowClass
     /\ locals.start = 0 \/ line[locals.start] \notin WindowClass
     /\ locals.end = Len(line) \/ line[locals.end + 1] \notin WindowClass
     /\ character = 0 => Before = << >>

\* C8 witness: a window that holds '>' after the cursor and is stopped by ','
\* on its left.
C8_Witness ==
  /\ Returned
  /\ locals.start > 0 /\ line[locals.start] = ","
  /\ locals.start < character
  /\ Includes(After, ">")

\* C9 (as claimed): the resolver returns none exactly when the sanitizer
\* never set recoverStartIndex; once it was set, the token is
\* window[recoverStartIndex : scanEnd] and a result is returned.
C9_NoneIffNoRecoverStart ==
  Returned
  => /\ resolved.isNull <=> (locals.recoverStartIndex = -1)
     /\ locals.recoverStartIndex # -1
        => resolved.token = Slice(locals.combined, locals.recoverStartIndex, locals.i)

\* C9 (amended): the resolver returns none exactly when the sanitizer never
\* set recoverStartIndex or the fragment window[recoverStartIndex : scanEnd]
\* is empty; when recoverStartIndex was set and the fragment is not empty,
\* that fragment is the token of the result.
C9_NoneIffNoStartOrEmpty ==
  Returned
  => /\ resolved.isNull
        <=> (locals.recoverStartIndex = -1 \/ locals.recoverStartIndex >= locals.i)
     /\ ~resolved.isNull
        => /\ resolved.token # << >>
           /\ resolved.token
                = Slice(locals.combined, locals.recoverStartIndex, locals.i)

\* C9 witness: recoverStartIndex was set by an orphan ']' that ends the
\* window, and the provider returned undefined.
C9_Witness ==
  /\ pc = "undefined"
  /\ locals.recoverStartIndex # -1
  /\ locals.recoverStartIndex = locals.i
  /\ locals.combined # << >>

\* s is a non-empty well-formed shorthand fragment: outside brackets it holds
\* only name characters, '.', '#' and '[', and no ']' closes a bracket that
\* was not opened (an unterminated bracket is well-formed).
RECURSIVE WellFormedFrom(_, _, _)
WellFormedFrom(s, k, depth) ==
  IF k > Len(s) THEN TRUE
  ELSE IF s[k] = "[" THEN WellFormedFrom(s, k + 1, depth + 1)
  ELSE IF s[k] = "]" THEN depth > 0 /\ WellFormedFrom(s, k + 1, depth - 1)
  ELSE IF depth > 0 THEN WellFormedFrom(s, k + 1, depth)
  ELSE (IsNameChar(s[k]) \/ s[k] \in {".", "#"}) /\ WellFormedFrom(s, k + 1, depth)

WellFormed(s) == s # << >> /\ WellFormedFrom(s, 1, 0)

\* The splits of the window into a non-empty prefix that is not well-formed
\* and a well-formed fragment: the lengths of the prefix.
IllFormedPrefixSplits ==
  {n \in 1..(Len(locals.combined) - 1) :
     /\ ~WellFormed(SubSeq(locals.combined, 1, n))
     /\ WellFormed(SubSeq(locals.combined, n + 1, Len(locals.combined)))}

\* C10 (as claimed): whenever the window is an ill-formed prefix followed by
\* a non-empty well-formed fragment s, the sanitizer returns a token (not
\* null) that is a suffix of the window and contains s.
C10_LeadingGarbageNeverRejects ==
  Returned
  => \A n \in IllFormedPrefixSplits :
       /\ ~locals.sanitized.isNull
       /\ EndsWithText(locals.combined, locals.sanitized.text)
       /\ Len(locals.sanitized.text) >= Len(locals.combined) - n

\* C10 (amended): the sanitizer discards a leading prefix only up to a ']':
\* a token it returns is window[recoverStartIndex : scanEnd], and the part
\* before it is empty or ends with ']' (an orphan close, or the close of a
\* leading bracket group); a window whose first character is neither in the
\* shorthand alphabet nor a bracket (such as '{', '}', '=', a quote) is
\* rejected (null) whatever follows it.
C10_PrefixDiscardedOnlyUpToClose ==
  Returned
  => /\ ~locals.sanitized.isNull
        => /\ locals.sanitized.text
                = Slice(locals.combined, locals.recoverStartIndex, locals.i)
           /\ \/ locals.recoverStartIndex = 0
              \/ locals.combined[locals.recoverStartIndex] = "]"
     /\ (/\ locals.combined # << >>
         /\ ~IsNameChar(locals.combined[1])
         /\ locals.combined[1] \notin {".", "#", "[", "]"})
        => locals.sanitized.isNull

\* C10 witness: an ill-formed prefix ending in an orphan ']' was discarded
\* and the well-formed fragment after it came back whole.
C10_Witness ==
  /\ pc = "list"
  /\ locals.recoverStartIndex > 0
  /\ locals.recoverStartIndex \in IllFormedPrefixSplits
  /\ locals.i = Len(locals.combined)

\* The bracket balance with which a left-to-right scan of s arrives at its
\* 1-based position k (section 4.2: '[' raises it, a ']' lowers it unless it
\* is 0, any character is passed while it is positive), or -1 when a
\* character outside the shorthand alphabet met at balance 0 ended the scan
\* before k.
RECURSIVE BalanceAt(_, _)
BalanceAt(s, k) ==
  IF k = 1 THEN 0
  ELSE LET b == BalanceAt(s, k - 1)
           ch == s[k - 1]
       IN  IF b = -1 THEN -1
           ELSE IF ch = "[" THEN b + 1
           ELSE IF ch = "]" THEN (IF b = 0 THEN 0 ELSE b - 1)
           ELSE IF b > 0 THEN b
           ELSE IF IsNameChar(ch) \/ ch \in {".", "#"} THEN 0
           ELSE -1

\* The positions of the window at which the scan meets an orphan ']' that is
\* followed, to the end of the window, by a non-empty fragment with no
\* orphan ']' and only shorthand characters outside its brackets.
OrphanCloseSplits ==
  {k \in 1..(Len(locals.combined) - 1) :
     /\ locals.combined[k] = "]"
     /\ BalanceAt(locals.combined, k) = 0
     /\ WellFormed(SubSeq(locals.combined, k + 1, Len(locals.combined)))}

\* C11: when the window is p + ']' + t, the ']' met at balance 0 and t a
\* non-empty shorthand fragment without an orphan ']', the sanitized token
\* is exactly t.
C11_OrphanCloseRecovery ==
  Returned
  => \A k \in OrphanCloseSplits :
       /\ ~locals.sanitized.isNull
       /\ locals.sanitized.text
            = SubSeq(locals.combined, k + 1, Len(locals.combined))

\* C11 witness: an orphan ']' after a non-empty prefix that had already
\* given a start, and the token returned is what follows the ']'.
C11_Witness ==
  /\ pc = "list"
  /\ \E k \in OrphanCloseSplits :
       /\ k > 1
       /\ IsNameChar(locals.combined[1])
       /\ resolved.token = SubSeq(locals.combined, k + 1, Len(locals.combined))

\* The longest leading run of s made of a letter and the name characters
\* that follow it (empty when s does not start with a letter).
LeadingTagRun(s) ==
  IF s = << >> \/ ~IsLetter(s[1]) THEN << >>
  ELSE LET n == CHOOSE n \in 1..Len(s) :
                  /\ \A j \in 1..n : IsNameChar(s[j])
                  /\ n = Len(s) \/ ~IsNameChar(s[n + 1])
       IN  SubSeq(s, 1, n)

\* The tag the compilation of token must use: its leading tag run, or div.
ExpectedTag(token) ==
  IF LeadingTagRun(token) = << >> THEN TextDiv ELSE LeadingTagRun(token)

\* C12: the markup opens with the token's maximal leading tag run when the
\* token starts with a letter and with div otherwise, never with an empty
\* tag; a token that does not start with a letter parses no tag, and its
\* classes, id and attrs are those of the same token written after an
\* explicit div.
C12_TagDefault ==
  pc = "list"
  => LET token == resolved.token
         tag == ExpectedTag(token)
         explicit == parseToken(TextDiv \o token)
     IN  /\ tag # << >>
         /\ IsLetter(token[1]) => parsed.tag = tag
         /\ Len(snippet) >= Len(tag) + 2
         /\ SubSeq(snippet, 1, Len(tag) + 1) = <<"<">> \o tag
         /\ snippet[Len(tag) + 2] \in {" ", ">"}
         /\ ~IsLetter(token[1])
            => /\ parsed.tag = << >>
               /\ tag = TextDiv
               /\ parsed.classes = explicit.classes
               /\ parsed.id = explicit.id
               /\ parsed.attrs = explicit.attrs

\* C12 witness: a token that starts with a digit or an underscore and has a
\* class is compiled as a div with that class.
C12_Witness ==
  /\ pc = "list"
  /\ IsNameChar(resolved.token[1])
  /\ ~IsLetter(resolved.token[1])
  /\ parsed.classes # << >>
  /\ SubSeq(snippet, 1, 4) = <<"<">> \o TextDiv

\* The 1-based position of the '[' inside whose bracket position k of s
\* lies, or 0 when k is outside brackets. Brackets are read as the Tag
\* Expression grammar has them: a '[' outside a bracket opens one and the
\* next ']' closes it.
RECURSIVE OpenBracketAt(_, _)
OpenBracketAt(s, k) ==
  IF k = 1 THEN 0
  ELSE LET o == OpenBracketAt(s, k - 1) IN
       IF o = 0
       THEN (IF s[k - 1] = "[" THEN k - 1 ELSE 0)
       ELSE (IF s[k - 1] = "]" THEN 0 ELSE o)

\* The name that follows position k of s: its maximal run of name characters.
NameAfter(s, k) ==
  LET e == CHOOSE e \in k..Len(s) :
             /\ \A j \in (k + 1)..e : IsNameChar(s[j])
             /\ e = Len(s) \/ ~IsNameChar(s[e + 1])
  IN  SubSeq(s, k + 1, e)

\* The positions of the '#' fragments of s outside brackets that have a name.
NamedIdFragments(s) ==
  {k \in 1..Len(s) :
     s[k] = "#" /\ OpenBracketAt(s, k) = 0 /\ NameAfter(s, k) # << >>}

\* C13: the parsed id is the name of the last '#name' fragment outside
\* brackets whose name is not empty, and there is no id when the token has
\* no such fragment; an empty '#' changes nothing.
C13_LastIdWins ==
  pc = "list"
  => LET ids == NamedIdFragments(resolved.token) IN
     IF ids = {} THEN parsed.id = << >>
     ELSE LET last == CHOOSE k \in ids : \A m \in ids : m <= k
          IN  parsed.id = NameAfter(resolved.token, last)

\* C13 witness: two fragments with different names, the second one parsed.
C13_Witness ==
  /\ pc = "list"
  /\ \E k, m \in NamedIdFragments(resolved.token) :
       /\ k < m
       /\ NameAfter(resolved.token, k) # NameAfter(resolved.token, m)
       /\ parsed.id = NameAfter(resolved.token, m)

\* The 1-based position of the '[' left open at the end of s, or 0.
UnclosedBracket(s) == OpenBracketAt(s, Len(s) + 1)

\* The texts with which the markup of a tag can end after its attributes.
ClosingTexts(tag) ==
  {<<" ", "/", ">">>}
    \cup {TextAlt \o Stop(n) \o TextQuote \o <<" ", "/", ">">> : n \in 1..9}
    \cup {<<">">> \o Stop(0) \o <<"<", "/">> \o tag \o <<">">>}

\* C14: when the token ends inside an unclosed '[', the text from after
\* that '[' to the end of the token is the last attrs entry, and the markup
\* carries it unchanged as its last attribute, right before the closing.
C14_UnterminatedBracketKept ==
  pc = "list" /\ UnclosedBracket(resolved.token) # 0
  => LET token == resolved.token
         entry == SubSeq(token, UnclosedBracket(token) + 1, Len(token))
     IN  /\ parsed.attrs # << >>
         /\ parsed.attrs[Len(parsed.attrs)] = entry
         /\ \E c \in ClosingTexts(ExpectedTag(token)) :
              EndsWithText(snippet, <<" ">> \o entry \o c)

\* C14 witness: an unterminated bracket with text in it that is neither a
\* name nor empty.
C14_Witness ==
  /\ pc = "list"
  /\ UnclosedBracket(resolved.token) # 0
  /\ UnclosedBracket(resolved.token) < Len(resolved.token)
  /\ ~IsNameChar(resolved.token[Len(resolved.token)])
  /\ Len(parsed.attrs) > 0
  /\ parsed.attrs[Len(parsed.attrs)] # << >>

\* The names written in order with exactly one space between two of them.
RECURSIVE SpaceSeparated(_)
SpaceSeparated(names) ==
  IF Len(names) = 0 THEN << >>
  ELSE IF Len(names) = 1 THEN names[1]
  ELSE SpaceSeparated(SubSeq(names, 1, Len(names) - 1))
         \o <<" ">> \o names[Len(names)]

\* A parse with a non-void tag, a class list, no id and no attrs.
ClassesOnly ==
  /\ pc = "list"
  /\ toLowerCase(ExpectedTag(resolved.token)) \notin SELF_CLOSING
  /\ parsed.classes # << >>
  /\ parsed.id = << >>
  /\ parsed.attrs = << >>

\* The opening tag with its class attribute, ${0} and the closing tag.
ClassesOnlyMarkup ==
  LET tag == ExpectedTag(resolved.token) IN
  <<"<">> \o tag \o TextClassName \o SpaceSeparated(parsed.classes)
    \o TextQuote \o <<">">> \o Stop(0) \o <<"<", "/">> \o tag \o <<">">>

\* C15 as stated: a non-void tag with classes, no id and no attrs compiles
\* to the opening tag with its class attribute, ${0} and the closing tag.
C15_ClassesOnlyMarkup ==
  ClassesOnly => snippet = ClassesOnlyMarkup

\* C15 amended: the same when the token holds no '#'; a '#' without a name
\* leaves the id unset and still adds an id attribute.
C15_ClassesOnlyMarkupNoHash ==
  ClassesOnly /\ ~Includes(resolved.token, "#") => snippet = ClassesOnlyMarkup

\* C15 witness: two classes, no '#', compiled with one space between them.
C15_Witness ==
  /\ ClassesOnly
  /\ ~Includes(resolved.token, "#")
  /\ Len(parsed.classes) >= 2
  /\ snippet = ClassesOnlyMarkup

\* The positions of the '.' fragments of s outside brackets that have a name.
NamedClassFragments(s) ==
  {k \in 1..Len(s) :
     s[k] = "." /\ OpenBracketAt(s, k) = 0 /\ NameAfter(s, k) # << >>}

\* A token that ends with '.' and has no named class fragment.
TrailingDotNoClass ==
  /\ pc = "list"
  /\ resolved.token[Len(resolved.token)] = "."
  /\ NamedClassFragments(resolved.token) = {}

\* C16: a token that ends with '.' and captures no class name parses to an
\* empty class list with endsWith '.', and its markup has a class attribute
\* whose value is the placeholder ${1}, the first stop of the text.
C16_TrailingDotPlaceholder ==
  TrailingDotNoClass
  => LET hole == TextClassName \o Stop(1) \o TextQuote IN
     /\ parsed.classes = << >>
     /\ parsed.endsWith = "."
     /\ Contains(snippet, hole)
     /\ FindSub(snippet, <<"$">>) = FindSub(snippet, hole) + Len(TextClassName)
     /\ StopNumbers(snippet, 1)[1] = 1

\* C16 witness: a tag followed by a lone '.', compiled with the placeholder
\* right after the tag.
C16_Witness ==
  /\ TrailingDotNoClass
  /\ parsed.tag # << >>
  /\ resolved.token = parsed.tag \o <<".">>
  /\ SubSeq(snippet, 1, Len(parsed.tag) + 1 + Len(TextClassName) + 4)
       = <<"<">> \o parsed.tag \o TextClassName \o Stop(1)

\* The number of characters after the cursor that the returned span takes.
ConsumedAfterLength == resolved.end - character

\* C17: a result's span starts at the window start and ends at the cursor
\* plus a consumed length between 0 and the length of `after`, so that
\* 0 <= windowStart <= cursor <= replacementEnd <= windowEnd <= Len(line).
C17_SpanWithinWindow ==
  Returned /\ ~resolved.isNull
  => /\ resolved.start = locals.start
     /\ 0 <= ConsumedAfterLength
     /\ ConsumedAfterLength <= Len(After)
     /\ 0 <= resolved.start
     /\ resolved.start <= character
     /\ character <= resolved.end
     /\ resolved.end <= locals.end
     /\ locals.end <= Len(line)

\* C17 witness: a window that starts after the line start, with a cursor
\* before its end, of which some but not all of `after` is consumed.
C17_Witness ==
  /\ pc = "list"
  /\ 0 < resolved.start
  /\ 0 < ConsumedAfterLength
  /\ ConsumedAfterLength < Len(After)

\* The largest number of a sequence of stop numbers, 0 when it is empty.
RECURSIVE MaxStop(_)
MaxStop(ns) ==
  IF ns = << >> THEN 0
  ELSE LET m == MaxStop(Tail(ns)) IN IF ns[1] > m THEN ns[1] ELSE m

\* Rule 5 asks for an alt placeholder: a void element other than img, and no
\* attrs entry that is exactly alt.
AltWanted ==
  LET tag == toLowerCase(ExpectedTag(resolved.token)) IN
  /\ tag \in SELF_CLOSING
  /\ tag # TextImg
  /\ \A k \in 1..Len(parsed.attrs) : parsed.attrs[k] # TextAltName

\* The markup carries the alt attribute with a placeholder.
AltPresent == Contains(snippet, TextAlt \o <<"$", "{">>)

\* C19: the alt placeholder is appended exactly when the tag is a void
\* element other than img and no attrs entry is exactly alt, and its number
\* is the next one after the stops already written.
C19_AltPlaceholderRule ==
  pc = "list"
  => /\ AltPresent <=> AltWanted
     /\ AltPresent
        => LET stops == StopNumbers(snippet, 1)
               earlier == SubSeq(stops, 1, Len(stops) - 1)
           IN  /\ EndsWithText(snippet,
                    TextAlt \o Stop(stops[Len(stops)]) \o TextQuote
                      \o <<" ", "/", ">">>)
               /\ stops[Len(stops)] = MaxStop(earlier) + 1

\* The number of terminal stops ${0} of s.
TerminalStops(s) == Len(SelectSeq(StopNumbers(s, 1), LAMBDA n : n = 0))

\* C20: when the tag lower-cased is a void element the markup ends with
\* ' />' and has neither ${0} nor a closing tag; otherwise it has exactly
\* one ${0}, between the '>' of the opening tag and the closing tag, which
\* is spelled as the tag was parsed.
C20_ClosingForm ==
  pc = "list"
  => LET tag == ExpectedTag(resolved.token) IN
     IF toLowerCase(tag) \in SELF_CLOSING
     THEN /\ EndsWithText(snippet, <<" ", "/", ">">>)
          /\ TerminalStops(snippet) = 0
          /\ ~Contains(snippet, <<"<", "/">>)
     ELSE /\ TerminalStops(snippet) = 1
          /\ EndsWithText(snippet,
               <<">">> \o Stop(0) \o <<"<", "/">> \o tag \o <<">">>)

\* C20 witness: a void tag written in upper case, compiled self-closed
\* with no terminal stop.
C20_Witness ==
  /\ pc = "list"
  /\ parsed.tag = <<"I", "M", "G">>
  /\ EndsWithText(snippet, <<" ", "/", ">">>)
  /\ TerminalStops(snippet) = 0

\* The 1-based positions of the window at which the scan, at balance 0,
\* meets a character of the shorthand alphabet ('[' among them).
ShorthandAtBalanceZero ==
  {k \in 1..Len(locals.combined) :
     /\ BalanceAt(locals.combined, k) = 0
     /\ IsShorthandChar(locals.combined[k])}

\* C21: a character of the shorthand alphabet met at balance 0, '[' too,
\* gives the scan a start; a window whose first character is '[' yields a
\* token that starts at that '['.
C21_OpenBracketSetsStart ==
  Returned
  => /\ ShorthandAtBalanceZero # {} => locals.recoverStartIndex # -1
     /\ (locals.combined # << >> /\ locals.combined[1] = "[")
        => /\ ~locals.sanitized.isNull
           /\ locals.recoverStartIndex = 0
           /\ locals.sanitized.text # << >>
           /\ locals.sanitized.text[1] = "["

\* The 1-based positions of the window at which the scan, at balance 0,
\* meets a character that is neither of the shorthand alphabet nor a
\* bracket (at most one: the scan ends there).
JunkAtBalanceZero ==
  {k \in 1..Len(locals.combined) :
     /\ BalanceAt(locals.combined, k) = 0
     /\ ~IsNameChar(locals.combined[k])
     /\ locals.combined[k] \notin {".", "#", "[", "]"}}

\* C22: the scan ends at the first character met at balance 0 that is
\* neither of the shorthand alphabet nor a bracket, and a token returned
\* lies wholly before that character; with no such character the scan
\* consumes the whole window, whatever the brackets hold.
C22_StopsAtTrailingJunk ==
  Returned
  => /\ JunkAtBalanceZero = {} => locals.i = Len(locals.combined)
     /\ \A k \in JunkAtBalanceZero :
          /\ locals.i = k - 1
          /\ ~locals.sanitized.isNull
             => /\ locals.recoverStartIndex + Len(locals.sanitized.text) <= k - 1
                /\ locals.sanitized.text
                     = SubSeq(locals.combined, locals.recoverStartIndex + 1, k - 1)

\* C22 witness: a token was returned from a window that goes on after the
\* character that ended the scan.
C22_Witness ==
  /\ pc = "list"
  /\ \E k \in JunkAtBalanceZero :
       /\ k < Len(locals.combined)
       /\ Len(resolved.token) < k

\* The 1-based position of the ']' that closes, under the bracket balance,
\* the bracket in which position k of s lies at depth d; Len(s) + 1 when
\* the bracket is not closed.
RECURSIVE MatchClose(_, _, _)
MatchClose(s, k, d) ==
  IF k > Len(s) THEN k
  ELSE IF s[k] = "[" THEN MatchClose(s, k + 1, d + 1)
  ELSE IF s[k] = "]" THEN (IF d = 1 THEN k ELSE MatchClose(s, k + 1, d - 1))
  ELSE MatchClose(s, k + 1, d)

\* The contents of the bracket groups of s from position k on, each '[' at
\* depth 0 taken with its matching ']' (or to the end of s).
RECURSIVE BalancedAttrs(_, _)
BalancedAttrs(s, k) ==
  IF k > Len(s) THEN << >>
  ELSE IF s[k] = "["
  THEN LET m == MatchClose(s, k + 1, 1)
       IN  <<SubSeq(s, k + 1, m - 1)>> \o BalancedAttrs(s, m + 1)
  ELSE BalancedAttrs(s, k + 1)

\* The positions of the named '.' fragments of s at bracket depth 0.
ClassesAtDepthZero(s) ==
  {k \in 1..Len(s) :
     s[k] = "." /\ BalanceAt(s, k) = 0 /\ NameAfter(s, k) # << >>}

\* C23: the attrs of a token are its bracket groups as the sanitizer's
\* balance delimits them, each '[' taken up to its matching ']' or to the
\* end of the token, and only a '.' at depth 0 gives a class.
C23_BracketExtentAgrees ==
  pc = "list"
  => /\ parsed.attrs = BalancedAttrs(resolved.token, 1)
     /\ Len(parsed.classes) = Cardinality(ClassesAtDepthZero(resolved.token))

\* The number of occurrences of ch among the first n characters of s.
CountIn(s, n, ch) == Cardinality({j \in 1..n : s[j] = ch})

\* The bracket depth at which position k of s lies: the '[' less the ']'
\* before it.
DepthBefore(s, k) == CountIn(s, k - 1, "[") - CountIn(s, k - 1, "]")

\* C24: a token the sanitizer returns is a contiguous part of the window;
\* no prefix of it has more ']' than '[', and each of its characters at
\* bracket depth 0 is a name character, '.', '#', '[' or ']'.
C24_TokenHasNoOrphanClose ==
  Returned /\ ~locals.sanitized.isNull
  => LET t == locals.sanitized.text IN
     /\ \E a \in 0..Len(locals.combined) :
          /\ a + Len(t) <= Len(locals.combined)
          /\ t = SubSeq(locals.combined, a + 1, a + Len(t))
     /\ \A n \in 1..Len(t) : CountIn(t, n, "]") <= CountIn(t, n, "[")
     /\ \A k \in 1..Len(t) :
          DepthBefore(t, k) = 0
          => IsNameChar(t[k]) \/ t[k] \in {".", "#", "[", "]"}

\* C24 witness: a token with a closed bracket group, returned from a window
\* in which an orphan ']' comes before it.
C24_Witness ==
  /\ pc = "list"
  /\ locals.recoverStartIndex > 0
  /\ locals.combined[locals.recoverStartIndex] = "]"
  /\ Includes(resolved.token, "]")

\* The names of the named '.' fragments of s outside brackets, from
\* position k on, in order.
RECURSIVE ClassNamesFrom(_, _)
ClassNamesFrom(s, k) ==
  IF k > Len(s) THEN << >>
  ELSE IF k \in NamedClassFragments(s)
  THEN <<NameAfter(s, k)>> \o ClassNamesFrom(s, k + 1)
  ELSE ClassNamesFrom(s, k + 1)

\* The text from after position k of s to the next ']' or the end of s.
AttrAfter(s, k) ==
  LET closes == {j \in (k + 1)..Len(s) : s[j] = "]"}
  IN  IF closes = {} THEN SubSeq(s, k + 1, Len(s))
      ELSE SubSeq(s, k + 1, (CHOOSE j \in closes : \A c \in closes : j <= c) - 1)

\* The contents of the '[' fragments of s outside brackets, from position k
\* on, in order.
RECURSIVE AttrTextsFrom(_, _)
AttrTextsFrom(s, k) ==
  IF k > Len(s) THEN << >>
  ELSE IF s[k] = "[" /\ OpenBracketAt(s, k) = 0
  THEN <<AttrAfter(s, k)>> \o AttrTextsFrom(s, k + 1)
  ELSE AttrTextsFrom(s, k + 1)

\* The positions of s that the loop skips alone: outside brackets, none of
\* '.', '#', '[', and part of neither the tag nor a name.
SkippedAlone(s) ==
  {k \in (Len(LeadingTagRun(s)) + 1)..Len(s) :
     /\ OpenBracketAt(s, k) = 0
     /\ s[k] \notin {".", "#", "["}
     /\ \A j \in 1..(k - 1) :
          s[j] \in {".", "#"} /\ OpenBracketAt(s, j) = 0
          => k > j + Len(NameAfter(s, j))}

\* C25: every iteration of the loop of parseToken moves the index forward
\* and not past the end of the token, and the parse holds every class, id
\* and bracket fragment of the token outside brackets, those that follow a
\* skipped character too.
C25_ParseSkipsAndGoesOn ==
  pc = "list"
  => LET token == resolved.token
         ids == NamedIdFragments(token)
     IN  /\ \A i \in 0..(Len(token) - 1) :
              /\ ParseNext(token, i) > i
              /\ ParseNext(token, i) <= Len(token)
         /\ parsed.classes = ClassNamesFrom(token, 1)
         /\ parsed.attrs = AttrTextsFrom(token, 1)
         /\ (parsed.id # << >>) <=> (ids # {})
         /\ \A k \in ids : \E m \in ids : m >= k /\ parsed.id = NameAfter(token, m)

\* C25 witness: a token whose first character is skipped alone and is
\* followed by a class and a bracket fragment, both parsed.
C25_Witness ==
  /\ pc = "list"
  /\ 1 \in SkippedAlone(resolved.token)
  /\ parsed.classes # << >>
  /\ parsed.attrs # << >>

====
